---- MODULE Spec2Model ----
(***************************************************************************)
(* GraphGallery: the supervised training driver (SupervisedModel in        *)
(* graphgallery/nn/models/supervised/supervised_model.py) and the Keras-   *)
(* like PyTorch wrapper (TorchKeras in graphgallery/nn/models/             *)
(* torch_keras.py), as state machines.                                     *)
(*                                                                         *)
(* A SupervisedModel behaviour is: any sequence of build / close, then one *)
(* call of train, train_v2, test or predict executed step by step, then    *)
(* any sequence of build / close.  A TorchKeras behaviour is any sequence  *)
(* of optimizer steps, save_weights, load_weights, save and load.          *)
(*                                                                         *)
(* Python values: None is the empty tuple <<>> and a present value x is    *)
(* <<x>>; a str is a tuple of one-character strings; the tri-state `built` *)
(* attribute is one of "True", "False", "None".                            *)
(***************************************************************************)
EXTENDS Integers, Sequences, FiniteSets, TLC

VARIABLES
    built,          \* self.built
    model,          \* self.model: [none, weights, stop_training]
    index_train,    \* self.index_train
    index_val,      \* self.index_val
    index_test,     \* self.index_test
    hooks,          \* the do_before_* attributes that are not None
    files,          \* the file system: path -> stored weights
    supplied,       \* the CallbackList object the caller of train_v2 owns
    pc,             \* position of the running method
    call,           \* arguments and locals of the running method
    history,        \* the History object of train
    callbacks,      \* the callbacks train_v2 adds: EarlyStopping, ModelCheckpoint
    trace,          \* effects of the running method, in program order
    io,             \* its file operations with their paths, in program order
    last_op,        \* the last public operation called on the model
    result,         \* how the method ended
    state_dict,     \* TorchKeras: the module's state dict
    tk_path,        \* TorchKeras: the file name the caller works with
    tk_saved,       \* TorchKeras: the last save_weights, if no file was written since
    tk_loaded       \* TorchKeras: the load that has just ended

vars == <<built, model, index_train, index_val, index_test, hooks, files,
          supplied, pc, call, history, callbacks, trace, io, last_op,
          result, state_dict, tk_path, tk_saved, tk_loaded>>

objvars == <<built, model, index_train, index_val, index_test, hooks, files, supplied>>
tkvars == <<state_dict, tk_path, tk_saved, tk_loaded>>

----------------------------------------------------------------------------
(* Bounds *)

MaxEpochs == 3
MaxPatience == 1
MaxPathLen == 3
MaxStateDict == 1

----------------------------------------------------------------------------
(* Python values *)

None == <<>>
Some(x) == <<x>>

Alphabet == {"w", ".", "h", "5"}
TorchAlphabet == {"w", ".", "p", "t", "h"}

StrsOver(A, n) == UNION {[1..k -> A] : k \in 0..n}

endswith(s, suffix) ==
    /\ Len(s) >= Len(suffix)
    /\ SubSeq(s, Len(s) - Len(suffix) + 1, Len(s)) = suffix

H5 == <<".", "h", "5">>

MetricNames == {"loss", "acc", "val_loss", "val_acc"}
\* losses and accuracies are only compared for order: two values give
\* each of better, equal and worse between the results of two epochs
MetricValues == {0, 1}

----------------------------------------------------------------------------
(* graphgallery.utils.history.History *)

NoResults == [n \in MetricNames |-> <<>>]

History(monitor, early_stop_metric) ==
    [monitor_metric |-> monitor,
     early_stop_metric |-> early_stop_metric,
     history |-> NoResults,
     epoch |-> <<>>,
     best |-> None,
     save_best |-> FALSE]

register_monitor_metric(h, name) == [h EXCEPT !.monitor_metric = name]

register_early_stop_metric(h, name) == [h EXCEPT !.early_stop_metric = name]

\* an accuracy improves upwards, a loss downwards
Better(name, a, b) == IF name \in {"acc", "val_acc"} THEN a > b ELSE a < b

add_results(h, value, name) ==
    LET improved == h.best = None \/ Better(name, value, h.best[1])
    IN  IF name = h.monitor_metric
        THEN [h EXCEPT !.history[name] = Append(@, value),
                       !.save_best = improved,
                       !.best = IF improved THEN Some(value) ELSE @]
        ELSE [h EXCEPT !.history[name] = Append(@, value)]

record_epoch(h, epoch) == [h EXCEPT !.epoch = Append(@, epoch)]

\* the early-stop metric has not improved in the last `patience` epochs
time_to_early_stopping(h, patience) ==
    LET m == h.history[h.early_stop_metric]
        n == Len(m)
    IN  /\ n > patience
        /\ \A i \in (n - patience + 1)..n :
              \E j \in 1..(n - patience) : ~Better(h.early_stop_metric, m[i], m[j])

----------------------------------------------------------------------------
(* graphgallery.nn.models.BaseModel *)

NoModel == [none |-> TRUE, weights |-> 0, stop_training |-> FALSE]
NewModel == [none |-> FALSE, weights |-> 0, stop_training |-> FALSE]

set_model(m) == m

\* self.log_path, the default place of the weights
self_log_path == <<"w">>

NoFiles == [p \in {} |-> 0]

\* self.save(path): the weights of the model are written at path
save(fs, path, weights) ==
    [p \in DOMAIN fs \cup {path} |-> IF p = path THEN weights ELSE fs[p]]

os_remove(fs, path) == [p \in DOMAIN fs \ {path} |-> fs[p]]

----------------------------------------------------------------------------
(* The state after construction *)

HookNames == {"do_before_train", "do_before_validation",
              "do_before_test", "do_before_predict"}

NoCall ==
    [validation |-> FALSE, epochs |-> 0, epoch |-> 0,
     early_stopping |-> None, save_best |-> FALSE,
     log_path_arg |-> None, log_path |-> <<>>,
     logs |-> [n \in MetricNames |-> <<>>], kwargs |-> {}]

NoCallbacks == [es |-> None, mc |-> None]

Frame0 ==
    /\ pc = "idle"
    /\ call = NoCall
    /\ history = History("val_acc", "val_loss")
    /\ callbacks = NoCallbacks
    /\ trace = <<>>
    /\ io = <<>>
    /\ result = "none"

framevars == <<pc, call, history, callbacks, trace, io, result>>

HookConfigs == {{}, HookNames}

\* BaseModel.__init__ leaves `built` falsy: False or None
Init ==
    /\ built \in {"False", "None"}
    /\ model = NoModel
    /\ index_train = "None"
    /\ index_val = "None"
    /\ index_test = "None"
    /\ hooks \in HookConfigs
    /\ files = NoFiles
    /\ supplied = <<>>
    /\ last_op = "none"
    /\ Frame0
    /\ state_dict = 0
    /\ tk_path = <<>>
    /\ tk_saved = None
    /\ tk_loaded = None

----------------------------------------------------------------------------
(* SupervisedModel: build, close *)

IndexKinds == {"indices", "Sequence"}

\* self.to_int(index), the value the index_* attributes get
to_int == "int_indices"

\* a guard written `is False` instead of `not`
Falsy_is_False(b) == b = "False"

\* `not self.built`
Falsy(b) == b \in {"False", "None"}

Log(events) == trace' = trace \o events

\* the frame of a method that has ended is dropped by the next operation
DropFrame ==
    IF pc = "idle" THEN UNCHANGED framevars
    ELSE /\ pc' = "after"
         /\ call' = NoCall
         /\ history' = History("val_acc", "val_loss")
         /\ callbacks' = NoCallbacks
         /\ trace' = <<>>
         /\ io' = <<>>
         /\ result' = "none"

\* the build of a subclass: the model is set and the flag raised
build ==
    /\ pc \in {"idle", "done", "after"}
    /\ model' = set_model(NewModel)
    /\ built' = "True"
    /\ last_op' = "build"
    /\ DropFrame
    /\ UNCHANGED <<index_train, index_val, index_test, hooks, files, supplied,
                   tkvars>>

\* the property close: lines 560-565
close ==
    /\ pc \in {"idle", "done", "after"}
    /\ model' = set_model(NoModel)
    /\ built' = "None"
    /\ last_op' = "close"
    /\ DropFrame
    /\ UNCHANGED <<index_train, index_val, index_test, hooks, files, supplied,
                   tkvars>>

----------------------------------------------------------------------------
(* SupervisedModel.train *)

\* '.h5' appended without looking at the end of the path
h5_log_path_always(log_path) ==
    (IF log_path = None THEN self_log_path ELSE log_path[1]) \o H5

\* log_path, or self.log_path when log_path is None, with '.h5' appended
\* when it does not end with it
h5_log_path(log_path) ==
    LET path == IF log_path = None THEN self_log_path ELSE log_path[1]
    IN  IF ~endswith(path, H5) THEN path \o H5 ELSE path

\* the model after one pass of do_forward over a sequence
do_forward(m, training) ==
    IF training THEN [m EXCEPT !.weights = @ + 1] ELSE m

Patiences == {None} \cup {Some(n) : n \in 1..MaxPatience}

Raise(method, error) ==
    /\ pc' = "done"
    /\ result' = error
    /\ call' = NoCall
    /\ last_op' = method
    /\ UNCHANGED <<history, callbacks, trace, io>>

\* lines 128-164: the guard, the sequences, the History, the path
train(LogPaths, Monitors) ==
    /\ pc = "idle"
    /\ \E it \in IndexKinds, iv \in {"None"} \cup IndexKinds,
          epochs \in 0..MaxEpochs, early_stopping \in Patiences,
          save_best \in BOOLEAN, log_path \in LogPaths, mon \in Monitors :
        IF Falsy(built)
        THEN /\ Raise("train", "RuntimeError")
             /\ UNCHANGED <<objvars, tkvars>>
        ELSE LET validation == iv # "None"
                 h == History(mon[1], mon[2])
             IN  /\ index_train' = IF it = "Sequence" THEN index_train ELSE to_int
                 /\ index_val' = IF iv = "indices" THEN to_int ELSE index_val
                 /\ history' = IF ~validation
                               THEN register_early_stop_metric(
                                        register_monitor_metric(h, "acc"), "loss")
                               ELSE h
                 /\ call' = [NoCall EXCEPT !.validation = validation,
                                           !.epochs = epochs,
                                           !.epoch = IF epochs >= 1 THEN 1 ELSE 0,
                                           !.early_stopping = early_stopping,
                                           !.save_best = save_best,
                                           !.log_path_arg = log_path,
                                           !.log_path = h5_log_path(log_path)]
                 /\ last_op' = "train"
                 /\ Log((IF it = "Sequence" THEN <<>>
                         ELSE <<(<<"train_sequence", 0>>), (<<"index_train", 0>>)>>)
                        \o (IF iv = "indices"
                            THEN <<(<<"test_sequence", 0>>), (<<"index_val", 0>>)>>
                            ELSE <<>>))
                 /\ pc' = IF epochs >= 1 THEN "train_forward" ELSE "finish"
                 /\ UNCHANGED <<built, model, index_test, hooks, files, supplied,
                                callbacks, io, result, tkvars>>

\* lines 168-175: the hook, the training pass, its results
train_forward(Results) ==
    /\ pc = "train_forward"
    /\ \E loss \in MetricValues, accuracy \in MetricValues :
        /\ <<loss, accuracy>> \in Results
        /\ model' = do_forward(model, TRUE)
        /\ history' = add_results(add_results(history, loss, "loss"), accuracy, "acc")
        /\ Log((IF "do_before_train" \in hooks
                THEN <<(<<"do_before_train", call.epoch>>)>> ELSE <<>>)
               \o <<(<<"do_forward", call.epoch>>),
                    (<<"train_data.on_epoch_end", call.epoch>>),
                    (<<"add_results loss", call.epoch>>),
                    (<<"add_results acc", call.epoch>>)>>)
    /\ pc' = IF call.validation THEN "validation" ELSE "record_epoch"
    /\ UNCHANGED <<built, index_train, index_val, index_test, hooks, files,
                   supplied, call, callbacks, io, last_op, result, tkvars>>

\* lines 177-184: the hook, the validation pass, its results
train_validation(Results) ==
    /\ pc = "validation"
    /\ \E val_loss \in MetricValues, val_accuracy \in MetricValues :
        /\ <<val_loss, val_accuracy>> \in Results
        /\ model' = do_forward(model, FALSE)
        /\ history' = add_results(add_results(history, val_loss, "val_loss"),
                                  val_accuracy, "val_acc")
        /\ Log((IF "do_before_validation" \in hooks
                THEN <<(<<"do_before_validation", call.epoch>>)>> ELSE <<>>)
               \o <<(<<"do_forward validation", call.epoch>>),
                    (<<"add_results val_loss", call.epoch>>),
                    (<<"add_results val_acc", call.epoch>>)>>)
    /\ pc' = "record_epoch"
    /\ UNCHANGED <<built, index_train, index_val, index_test, hooks, files,
                   supplied, call, callbacks, io, last_op, result, tkvars>>

\* epochs counted from 0
train_record_epoch_from_0 ==
    /\ pc = "record_epoch"
    /\ history' = record_epoch(history, call.epoch - 1)
    /\ Log(<<(<<"record_epoch", call.epoch>>)>>)
    /\ pc' = "save_best"
    /\ UNCHANGED <<objvars, call, callbacks, io, last_op, result, tkvars>>

\* line 187
train_record_epoch ==
    /\ pc = "record_epoch"
    /\ history' = record_epoch(history, call.epoch)
    /\ Log(<<(<<"record_epoch", call.epoch>>)>>)
    /\ pc' = "save_best"
    /\ UNCHANGED <<objvars, call, callbacks, io, last_op, result, tkvars>>

\* a checkpoint written at every epoch
train_saves_every_epoch == call.save_best

\* a loop that leaves before it saves
train_saves_unless_break ==
    /\ call.save_best /\ history.save_best
    /\ ~(call.early_stopping # None
         /\ time_to_early_stopping(history, call.early_stopping[1]))

\* the condition of line 189
train_saves == call.save_best /\ history.save_best

\* lines 189-190
train_save_best ==
    /\ pc = "save_best"
    /\ IF train_saves
       THEN /\ files' = save(files, call.log_path, model.weights)
            /\ Log(<<(<<"save", call.epoch>>)>>)
            /\ io' = Append(io, <<"save", call.log_path>>)
       ELSE UNCHANGED <<files, trace, io>>
    /\ pc' = "early_stopping"
    /\ UNCHANGED <<built, model, index_train, index_val, index_test, hooks,
                   supplied, call, history, callbacks, last_op, result, tkvars>>

\* a loop without its break
train_never_breaks == FALSE

\* whether line 193 breaks out of the loop
train_breaks ==
    /\ call.early_stopping # None
    /\ time_to_early_stopping(history, call.early_stopping[1])

\* lines 193-198 and the loop's next iteration
train_early_stopping ==
    /\ pc = "early_stopping"
    /\ Log((IF call.early_stopping # None
            THEN <<(<<"time_to_early_stopping", call.epoch>>)>> ELSE <<>>)
           \o (IF train_breaks THEN <<(<<"break", call.epoch>>)>> ELSE <<>>))
    /\ IF train_breaks
       THEN /\ pc' = "finish"
            /\ call' = call
       ELSE IF call.epoch < call.epochs
       THEN /\ pc' = "train_forward"
            /\ call' = [call EXCEPT !.epoch = @ + 1]
       ELSE /\ pc' = "finish"
            /\ call' = call
    /\ UNCHANGED <<objvars, history, callbacks, io, last_op, result, tkvars>>

\* lines 206-210: load the checkpoint, remove it, return the history
train_finish ==
    /\ pc = "finish"
    /\ pc' = "done"
    /\ IF call.save_best
       THEN IF call.log_path \in DOMAIN files
            THEN /\ model' = [model EXCEPT !.weights = files[call.log_path]]
                 /\ files' = os_remove(files, call.log_path)
                 /\ Log(<<(<<"load", call.epoch>>), (<<"os.remove", call.epoch>>)>>)
                 /\ io' = io \o <<(<<"load", call.log_path>>),
                                   (<<"os.remove", call.log_path>>)>>
                 /\ result' = "returned"
            ELSE /\ Log(<<(<<"load", call.epoch>>)>>)
                 /\ io' = Append(io, <<"load", call.log_path>>)
                 /\ result' = "OSError"
                 /\ UNCHANGED <<model, files>>
       ELSE /\ result' = "returned"
            /\ UNCHANGED <<model, files, trace, io>>
    /\ UNCHANGED <<built, index_train, index_val, index_test, hooks, supplied,
                   call, history, callbacks, last_op, tkvars>>

----------------------------------------------------------------------------
(* SupervisedModel.train_v2 *)

KwargNames == {"es_verbose", "verbose_es"}

\* tf.keras.callbacks.EarlyStopping(monitor, patience, mode='auto')
EarlyStopping(monitor, patience) ==
    [monitor |-> monitor, patience |-> patience, wait |-> 0, best |-> None]

\* tf.keras.callbacks.ModelCheckpoint(filepath, monitor, save_best_only=True)
ModelCheckpoint(filepath, monitor) ==
    [filepath |-> filepath, monitor |-> monitor, best |-> None]

\* EarlyStopping.on_train_begin
es_on_train_begin(cbs) ==
    IF cbs.es = None THEN cbs
    ELSE [cbs EXCEPT !.es = Some([cbs.es[1] EXCEPT !.wait = 0, !.best = None])]

\* EarlyStopping.on_epoch_end: the callback afterwards
es_on_epoch_end(es, logs) ==
    LET current == logs[es.monitor]
    IN  IF current = None THEN es
        ELSE IF es.best = None \/ Better(es.monitor, current[1], es.best[1])
        THEN [es EXCEPT !.best = current, !.wait = 0]
        ELSE [es EXCEPT !.wait = @ + 1]

\* EarlyStopping.on_epoch_end: whether it sets model.stop_training
es_stops(es, logs) ==
    LET current == logs[es.monitor]
    IN  /\ current # None
        /\ ~(es.best = None \/ Better(es.monitor, current[1], es.best[1]))
        /\ es.wait + 1 >= es.patience

\* ModelCheckpoint.on_epoch_end: whether it saves
mc_saves(mc, logs) ==
    LET current == logs[mc.monitor]
    IN  /\ current # None
        /\ (mc.best = None \/ Better(mc.monitor, current[1], mc.best[1]))

\* the monitor train_v2 gives the ModelCheckpoint: line 311
v2_monitor(monitor, validation) == monitor

\* the monitor train_v2 gives the EarlyStopping: line 297
v2_early_stop_metric(early_stop_metric, validation) == early_stop_metric

\* lines 265-325: the guards, the sequences, the callbacks, the keywords
train_v2(LogPaths, Monitors) ==
    /\ pc = "idle"
    /\ \E tf_version_ok \in BOOLEAN, it \in IndexKinds,
          iv \in {"None"} \cup IndexKinds,
          epochs \in 0..MaxEpochs, early_stopping \in Patiences,
          save_best \in BOOLEAN, log_path \in LogPaths, mon \in Monitors,
          callbacks_arg \in {"None", "CallbackList"}, kwargs \in SUBSET KwargNames :
        IF ~tf_version_ok \/ Falsy(built)
        THEN /\ Raise("train_v2", "RuntimeError")
             /\ UNCHANGED <<objvars, tkvars>>
        ELSE LET validation == iv # "None"
                 es == IF early_stopping # None
                       THEN Some(EarlyStopping(
                                v2_early_stop_metric(mon[2], validation),
                                early_stopping[1]))
                       ELSE None
                 path == IF save_best THEN h5_log_path(log_path) ELSE <<>>
                 mc == IF save_best
                       THEN Some(ModelCheckpoint(path, v2_monitor(mon[1], validation)))
                       ELSE None
                 left == IF early_stopping # None THEN kwargs \ {"es_verbose"}
                         ELSE kwargs
                 cbs == [es |-> es, mc |-> mc]
             IN  /\ index_train' = IF it = "Sequence" THEN index_train ELSE to_int
                 /\ index_val' = IF iv = "indices" THEN to_int ELSE index_val
                 /\ supplied' = IF callbacks_arg = "CallbackList"
                                THEN supplied
                                     \o (IF es # None THEN <<"EarlyStopping">> ELSE <<>>)
                                     \o (IF mc # None THEN <<"ModelCheckpoint">> ELSE <<>>)
                                ELSE supplied
                 /\ IF left # {}
                    THEN /\ pc' = "done"
                         /\ result' = "TypeError"
                         /\ callbacks' = cbs
                         /\ call' = [NoCall EXCEPT !.kwargs = kwargs,
                                                   !.early_stopping = early_stopping]
                         /\ Log((IF it = "Sequence" THEN <<>>
                                 ELSE <<(<<"train_sequence", 0>>), (<<"index_train", 0>>)>>)
                                \o (IF iv = "indices"
                                    THEN <<(<<"test_sequence", 0>>), (<<"index_val", 0>>)>>
                                    ELSE <<>>))
                    ELSE /\ pc' = IF epochs >= 1 THEN "v2_train" ELSE "v2_finish"
                         /\ result' = result
                         /\ callbacks' = es_on_train_begin(cbs)
                         /\ call' = [NoCall EXCEPT !.validation = validation,
                                                   !.epochs = epochs,
                                                   !.early_stopping = early_stopping,
                                                   !.save_best = save_best,
                                                   !.log_path_arg = log_path,
                                                   !.log_path = path]
                         /\ Log((IF it = "Sequence" THEN <<>>
                                 ELSE <<(<<"train_sequence", 0>>), (<<"index_train", 0>>)>>)
                                \o (IF iv = "indices"
                                    THEN <<(<<"test_sequence", 0>>), (<<"index_val", 0>>)>>
                                    ELSE <<>>)
                                \o <<(<<"on_train_begin", 0>>)>>)
                 /\ last_op' = "train_v2"
                 /\ UNCHANGED <<built, model, index_test, hooks, files, history, io,
                                tkvars>>

\* lines 328-338: one epoch up to the end of its training batch
v2_train(Results) ==
    /\ pc = "v2_train"
    /\ \E loss \in MetricValues, accuracy \in MetricValues :
        /\ <<loss, accuracy>> \in Results
        /\ model' = do_forward(model, TRUE)
        /\ call' = [call EXCEPT !.logs = [n \in MetricNames |->
                        IF n = "loss" THEN Some(loss)
                        ELSE IF n = "acc" THEN Some(accuracy) ELSE None]]
        /\ Log(<<(<<"on_epoch_begin", call.epoch>>)>>
               \o (IF "do_before_train" \in hooks
                   THEN <<(<<"do_before_train", call.epoch>>)>> ELSE <<>>)
               \o <<(<<"on_train_batch_begin", 0>>),
                    (<<"do_forward", call.epoch>>),
                    (<<"train_data.on_epoch_end", call.epoch>>),
                    (<<"on_train_batch_end", 0>>)>>)
    /\ pc' = IF call.validation THEN "v2_validation" ELSE "v2_epoch_end"
    /\ UNCHANGED <<built, index_train, index_val, index_test, hooks, files,
                   supplied, history, callbacks, io, last_op, result, tkvars>>

\* lines 340-345
v2_validation(Results) ==
    /\ pc = "v2_validation"
    /\ \E val_loss \in MetricValues, val_accuracy \in MetricValues :
        /\ <<val_loss, val_accuracy>> \in Results
        /\ model' = do_forward(model, FALSE)
        /\ call' = [call EXCEPT !.logs = [n \in MetricNames |->
                        IF n = "val_loss" THEN Some(val_loss)
                        ELSE IF n = "val_acc" THEN Some(val_accuracy) ELSE @[n]]]
        /\ Log((IF "do_before_validation" \in hooks
                THEN <<(<<"do_before_validation", call.epoch>>)>> ELSE <<>>)
               \o <<(<<"do_forward validation", call.epoch>>)>>)
    /\ pc' = "v2_epoch_end"
    /\ UNCHANGED <<built, index_train, index_val, index_test, hooks, files,
                   supplied, history, callbacks, io, last_op, result, tkvars>>

\* a loop without its break
v2_never_breaks(m) == FALSE

\* whether line 349 breaks out of the loop
v2_breaks(m) == m.stop_training

\* lines 347-350 and the loop's next iteration
v2_epoch_end ==
    /\ pc = "v2_epoch_end"
    /\ LET es == callbacks.es
           mc == callbacks.mc
           stop == es # None /\ es_stops(es[1], call.logs)
           saves == mc # None /\ mc_saves(mc[1], call.logs)
           m == [model EXCEPT !.stop_training = @ \/ stop]
       IN  /\ model' = m
           /\ callbacks' =
                [es |-> IF es = None THEN None
                        ELSE Some(es_on_epoch_end(es[1], call.logs)),
                 mc |-> IF saves
                        THEN Some([mc[1] EXCEPT !.best = call.logs[mc[1].monitor]])
                        ELSE mc]
           /\ files' = IF saves THEN save(files, mc[1].filepath, model.weights)
                       ELSE files
           /\ io' = IF saves THEN Append(io, <<"save", mc[1].filepath>>) ELSE io
           /\ Log(<<(<<"on_epoch_end", call.epoch>>)>>
                  \o (IF saves THEN <<(<<"save", call.epoch>>)>> ELSE <<>>)
                  \o (IF v2_breaks(m) THEN <<(<<"break", call.epoch>>)>> ELSE <<>>))
           /\ IF v2_breaks(m) \/ call.epoch + 1 >= call.epochs
              THEN /\ pc' = "v2_finish"
                   /\ call' = [call EXCEPT !.logs = NoCall.logs]
              ELSE /\ pc' = "v2_train"
                   /\ call' = [call EXCEPT !.epoch = @ + 1, !.logs = NoCall.logs]
    /\ UNCHANGED <<built, index_train, index_val, index_test, hooks, supplied,
                   history, last_op, result, tkvars>>

\* lines 353-360: on_train_end, load the checkpoint, remove it, return
v2_finish ==
    /\ pc = "v2_finish"
    /\ pc' = "done"
    /\ IF call.save_best
       THEN IF call.log_path \in DOMAIN files
            THEN /\ model' = [model EXCEPT !.weights = files[call.log_path]]
                 /\ files' = os_remove(files, call.log_path)
                 /\ Log(<<(<<"on_train_end", 0>>), (<<"load", call.epoch>>),
                          (<<"os.remove", call.epoch>>)>>)
                 /\ io' = io \o <<(<<"load", call.log_path>>),
                                   (<<"os.remove", call.log_path>>)>>
                 /\ result' = "returned"
            ELSE /\ Log(<<(<<"on_train_end", 0>>), (<<"load", call.epoch>>)>>)
                 /\ io' = Append(io, <<"load", call.log_path>>)
                 /\ result' = "OSError"
                 /\ UNCHANGED <<model, files>>
       ELSE /\ result' = "returned"
            /\ Log(<<(<<"on_train_end", 0>>)>>)
            /\ UNCHANGED <<model, files, io>>
    /\ UNCHANGED <<built, index_train, index_val, index_test, hooks, supplied,
                   call, history, callbacks, last_op, tkvars>>

----------------------------------------------------------------------------
(* SupervisedModel.test, SupervisedModel.predict *)

\* lines 387-402
test ==
    /\ pc = "idle"
    /\ \E index \in IndexKinds :
        IF Falsy(built)
        THEN /\ Raise("test", "RuntimeError")
             /\ UNCHANGED <<objvars, tkvars>>
        ELSE /\ pc' = "done"
             /\ result' = "returned"
             /\ call' = NoCall
             /\ last_op' = "test"
             /\ index_test' = IF index = "Sequence" THEN index_test ELSE to_int
             /\ model' = do_forward(model, FALSE)
             /\ Log((IF index = "Sequence" THEN <<>>
                     ELSE <<(<<"test_sequence", 0>>), (<<"index_test", 0>>)>>)
                    \o (IF "do_before_test" \in hooks
                        THEN <<(<<"do_before_test", 0>>)>> ELSE <<>>)
                    \o <<(<<"do_forward test", 0>>)>>)
             /\ UNCHANGED <<built, index_train, index_val, hooks, files, supplied,
                            history, callbacks, io, tkvars>>

\* lines 471-476
predict ==
    /\ pc = "idle"
    /\ IF Falsy(built)
       THEN /\ Raise("predict", "RuntimeError")
            /\ UNCHANGED <<objvars, tkvars>>
       ELSE /\ pc' = "done"
            /\ result' = "returned"
            /\ call' = NoCall
            /\ last_op' = "predict"
            /\ Log(IF "do_before_predict" \in hooks
                   THEN <<(<<"do_before_predict", 0>>)>> ELSE <<>>)
            /\ UNCHANGED <<objvars, history, callbacks, io, tkvars>>

----------------------------------------------------------------------------
(* The SupervisedModel specification *)

LogPathArgs == {None, Some(<<"w", ".", "h", "5">>)}

MonitorArgs == {<<"val_acc", "val_loss">>, <<"loss", "acc">>}

\* the <<loss, accuracy>> of a pass: a training pass ends worse or better
\* in both, the results of a validation pass vary one by one
TrainResults == {<<1, 0>>, <<0, 1>>}
ValidationResults == MetricValues \X MetricValues

Next ==
    \/ build
    \/ close
    \/ train(LogPathArgs, MonitorArgs)
    \/ train_forward(TrainResults)
    \/ train_validation(ValidationResults)
    \/ train_record_epoch
    \/ train_save_best
    \/ train_early_stopping
    \/ train_finish
    \/ train_v2(LogPathArgs, MonitorArgs)
    \/ v2_train(TrainResults)
    \/ v2_validation(ValidationResults)
    \/ v2_epoch_end
    \/ v2_finish
    \/ test
    \/ predict

Spec == Init /\ [][Next]_vars

\* the steps of a running call of train
TrainLoop ==
    \/ train_forward(TrainResults)
    \/ train_validation(ValidationResults)
    \/ train_record_epoch
    \/ train_save_best
    \/ train_early_stopping
    \/ train_finish

\* a call that has started is run to its end by the interpreter
SpecLive == Spec /\ WF_vars(TrainLoop)

----------------------------------------------------------------------------
(* The same machine with every short log_path and one result per pass *)

AllLogPathArgs == {None} \cup {Some(p) : p \in StrsOver(Alphabet, MaxPathLen)}

DefaultMonitorArgs == {<<"val_acc", "val_loss">>}

OneResult == {<<0, 0>>}

NextPath ==
    \/ build
    \/ close
    \/ train(AllLogPathArgs, DefaultMonitorArgs)
    \/ train_forward(OneResult)
    \/ train_validation(OneResult)
    \/ train_record_epoch
    \/ train_save_best
    \/ train_early_stopping
    \/ train_finish
    \/ train_v2(AllLogPathArgs, DefaultMonitorArgs)
    \/ v2_train(OneResult)
    \/ v2_validation(OneResult)
    \/ v2_epoch_end
    \/ v2_finish
    \/ test
    \/ predict

SpecPath == Init /\ [][NextPath]_vars

----------------------------------------------------------------------------
(* Properties of SupervisedModel *)

Methods == {"train", "train_v2", "test", "predict"}

\* the frame is that of method m, and m got past its guards
Ran(m) == last_op = m /\ pc \notin {"idle", "after"}
          /\ result \notin {"RuntimeError", "TypeError"}

Executed == Len(history.epoch)

Count(seq, name) == Cardinality({i \in DOMAIN seq : seq[i][1] = name})

\* C1: a method called while `built` is falsy raises RuntimeError at once:
\* no index attribute is assigned, no sequence built, no hook or pass run,
\* no callback touched, no file written or removed.
C1_NotBuiltRaises ==
    [][(pc = "idle" /\ built \in {"False", "None"} /\ pc' # "idle") =>
          /\ pc' = "done"
          /\ result' = "RuntimeError"
          /\ last_op' \in Methods
          /\ trace' = <<>>
          /\ io' = <<>>
          /\ UNCHANGED <<objvars, history, callbacks>>]_vars

C1_Witness ==
    /\ pc = "done"
    /\ result = "RuntimeError"
    /\ last_op = "train"
    /\ built = "None"
    /\ trace = <<>>

\* the History as it was after its first e epochs
HistoryAt(h, e) ==
    [h EXCEPT !.history = [n \in MetricNames |->
        SubSeq(h.history[n], 1, IF Len(h.history[n]) < e THEN Len(h.history[n]) ELSE e)]]

StopsAt(e) ==
    /\ call.early_stopping # None
    /\ time_to_early_stopping(HistoryAt(history, e), call.early_stopping[1])

\* the executed epochs of train, during the call and after it
C2_ExecutedEpochs ==
    Ran("train") =>
        /\ 0 <= Executed /\ Executed <= call.epochs
        /\ call.epoch <= call.epochs
        /\ Count(trace, "do_forward") \in {Executed, Executed + 1}
        /\ \A e \in 1..(Executed - 1) : ~StopsAt(e)
        /\ pc \in {"finish", "done"} =>
              /\ Count(trace, "do_forward") = Executed
              /\ Executed < call.epochs => StopsAt(Executed)
              /\ (Executed = call.epochs /\ Executed > 0 /\ StopsAt(Executed))
                    => Count(trace, "break") = 1
              /\ call.early_stopping = None => Executed = call.epochs

\* C2: train stops at the end of the first epoch at which
\* time_to_early_stopping holds and runs nothing of a later epoch; without
\* early stopping, or when it never holds, it runs exactly `epochs` epochs;
\* the number of executed epochs is between 0 and `epochs`, and a call of
\* train that got past its guard comes to its end.
C2_EarlyStoppingHalts ==
    /\ []C2_ExecutedEpochs
    /\ (last_op = "train" /\ pc \notin {"idle", "after"}) ~> (pc = "done")

C2_Witness ==
    /\ Ran("train")
    /\ pc = "done"
    /\ call.epochs = 3
    /\ Executed = 2
    /\ ~StopsAt(1)
    /\ StopsAt(2)
    /\ Count(trace, "do_forward") = 2

\* the epochs whose monitored result is better than every earlier one
BestEpochs(h) ==
    LET m == h.history[h.monitor_metric]
    IN  {e \in 1..Len(m) : \A j \in 1..(e - 1) : Better(h.monitor_metric, m[e], m[j])}

Last(S) == CHOOSE x \in S : \A y \in S : y <= x

\* C3: train(save_best=True) returns with the weights of the latest best
\* epoch, after loading the checkpoint and then removing it, so that no
\* file is left; train(save_best=False) touches no file and returns with
\* the weights of the last executed epoch.
C3_BestWeightsRestored ==
    (Ran("train") /\ pc = "done" /\ result = "returned") =>
        IF call.save_best
        THEN /\ BestEpochs(history) # {}
             /\ model.weights = Last(BestEpochs(history))
             /\ call.log_path \notin DOMAIN files
             /\ Len(io) = Cardinality(BestEpochs(history)) + 2
             /\ \A i \in 1..(Len(io) - 2) : io[i][1] = "save"
             /\ io[Len(io) - 1][1] = "load"
             /\ io[Len(io)][1] = "os.remove"
        ELSE /\ io = <<>>
             /\ files = NoFiles
             /\ model.weights = Executed

C3_Witness ==
    /\ Ran("train") /\ pc = "done" /\ result = "returned"
    /\ call.save_best
    /\ Executed = 2
    /\ model.weights = 1

TrainingMetrics == {"acc", "loss"}

\* C4: without validation data the metric that decides checkpointing and
\* the metric that decides early stopping are training metrics, in train
\* and in train_v2.
C4_TrainingMetricsWithoutValidation ==
    (last_op \in {"train", "train_v2"} /\ Ran(last_op) /\ ~call.validation) =>
        IF last_op = "train"
        THEN /\ history.monitor_metric \in TrainingMetrics
             /\ history.early_stop_metric \in TrainingMetrics
        ELSE /\ callbacks.mc # None => callbacks.mc[1].monitor \in TrainingMetrics
             /\ callbacks.es # None => callbacks.es[1].monitor \in TrainingMetrics

\* C5: the checkpoint path of a call is log_path (self.log_path when it is
\* None) with '.h5' appended exactly when it does not end with it; it ends
\* with '.h5', normalising it again changes nothing, and every save, load
\* and remove of the call uses it.
C5_OneH5Path ==
    (last_op \in {"train", "train_v2"} /\ Ran(last_op)) =>
        IF last_op = "train" \/ call.save_best
        THEN LET given == IF call.log_path_arg = None THEN self_log_path
                          ELSE call.log_path_arg[1]
             IN  /\ endswith(call.log_path, H5)
                 /\ call.log_path = IF endswith(given, H5) THEN given ELSE given \o H5
                 /\ h5_log_path(Some(call.log_path)) = call.log_path
                 /\ \A i \in DOMAIN io : io[i][2] = call.log_path
                 /\ DOMAIN files \subseteq {call.log_path}
        ELSE io = <<>> /\ files = NoFiles

C5_Witness ==
    /\ Ran("train") /\ pc = "done" /\ result = "returned"
    /\ call.log_path_arg = Some(H5)
    /\ call.log_path = H5
    /\ Len(io) = 3

\* C7: close leaves the wrapped model None and `built` the boolean False.
C7_CloseSetsBuiltFalse ==
    last_op = "close" => (model.none /\ built = "False")

IsPrefix(a, b) == Len(a) <= Len(b) /\ SubSeq(b, 1, Len(a)) = a

V2Events == {"on_train_begin", "on_epoch_begin", "on_train_batch_begin",
             "do_forward", "on_train_batch_end", "do_forward validation",
             "on_epoch_end", "on_train_end", "load"}

IsV2Event(ev) == ev[1] \in V2Events

\* the Keras order of one epoch
V2Epoch(e) ==
    <<(<<"on_epoch_begin", e>>), (<<"on_train_batch_begin", 0>>),
      (<<"do_forward", e>>), (<<"on_train_batch_end", 0>>)>>
    \o (IF call.validation THEN <<(<<"do_forward validation", e>>)>> ELSE <<>>)
    \o <<(<<"on_epoch_end", e>>)>>

RECURSIVE V2Epochs(_)
V2Epochs(k) == IF k = 0 THEN <<>> ELSE V2Epochs(k - 1) \o V2Epoch(k - 1)

\* C8: train_v2 calls on_train_begin once, then for each epoch 0, 1, ...
\* on_epoch_begin, on_train_batch_begin, the training pass,
\* on_train_batch_end, the validation pass if any, on_epoch_end; it leaves
\* the loop after the first epoch that ends with model.stop_training true;
\* on_train_end is called once after the last epoch, before the load.
C8_KerasCallbackOrder ==
    Ran("train_v2") =>
        LET calls == SelectSeq(trace, IsV2Event)
            k == Count(trace, "on_epoch_end")
        IN  /\ (pc = "v2_train" /\ call.epoch > 0) => ~model.stop_training
            /\ pc \in {"v2_train", "v2_validation", "v2_epoch_end", "v2_finish"} =>
                  /\ IsPrefix(calls, <<(<<"on_train_begin", 0>>)>> \o V2Epochs(call.epochs))
                  /\ Count(trace, "on_train_end") = 0
            /\ pc = "v2_finish" =>
                  /\ calls = <<(<<"on_train_begin", 0>>)>> \o V2Epochs(k)
                  /\ k = call.epochs \/ (k >= 1 /\ model.stop_training)
            /\ pc = "done" =>
                  /\ calls = <<(<<"on_train_begin", 0>>)>> \o V2Epochs(k)
                             \o <<(<<"on_train_end", 0>>)>>
                             \o (IF call.save_best THEN <<(<<"load", call.epoch>>)>>
                                 ELSE <<>>)
                  /\ k = call.epochs \/ (k >= 1 /\ model.stop_training)

C8_Witness ==
    /\ Ran("train_v2") /\ pc = "done" /\ result = "returned"
    /\ call.save_best
    /\ model.stop_training
    /\ Count(trace, "on_epoch_end") = 2
    /\ call.epochs = 3

TrainEvents == {"do_before_train", "do_forward", "train_data.on_epoch_end",
                "add_results loss", "add_results acc", "do_before_validation",
                "do_forward validation", "add_results val_loss",
                "add_results val_acc", "record_epoch", "save",
                "time_to_early_stopping", "break"}

IsTrainEvent(ev) == ev[1] \in TrainEvents

\* the order of one epoch of train
TrainEpoch(e) ==
    (IF "do_before_train" \in hooks THEN <<(<<"do_before_train", e>>)>> ELSE <<>>)
    \o <<(<<"do_forward", e>>), (<<"train_data.on_epoch_end", e>>),
         (<<"add_results loss", e>>), (<<"add_results acc", e>>)>>
    \o (IF call.validation
        THEN (IF "do_before_validation" \in hooks
              THEN <<(<<"do_before_validation", e>>)>> ELSE <<>>)
             \o <<(<<"do_forward validation", e>>), (<<"add_results val_loss", e>>),
                  (<<"add_results val_acc", e>>)>>
        ELSE <<>>)
    \o <<(<<"record_epoch", e>>)>>
    \o (IF call.save_best /\ e \in BestEpochs(history) THEN <<(<<"save", e>>)>> ELSE <<>>)
    \o (IF call.early_stopping # None
        THEN <<(<<"time_to_early_stopping", e>>)>> ELSE <<>>)
    \o (IF StopsAt(e) THEN <<(<<"break", e>>)>> ELSE <<>>)

RECURSIVE TrainEpochs(_)
TrainEpochs(k) == IF k = 0 THEN <<>> ELSE TrainEpochs(k - 1) \o TrainEpoch(k)

RecordedNames == IF call.validation THEN MetricNames ELSE TrainingMetrics

\* C9: every epoch of train runs do_before_train, the training pass,
\* train_data.on_epoch_end, the recording of loss and acc, then with
\* validation do_before_validation, the validation pass, the recording of
\* val_loss and val_acc, then record_epoch, the save, the early-stopping
\* check; the save sees the complete results of its epoch, and the epoch
\* that stops the training is saved when it is the best one.
C9_EpochOrder ==
    Ran("train") =>
        LET steps == SelectSeq(trace, IsTrainEvent)
        IN  /\ IsPrefix(steps, TrainEpochs(call.epoch))
            /\ pc = "save_best" =>
                  /\ \A n \in RecordedNames : Len(history.history[n]) = call.epoch
                  /\ Len(history.epoch) = call.epoch
            /\ pc \in {"finish", "done"} =>
                  /\ steps = TrainEpochs(Executed)
                  /\ (call.save_best /\ Executed \in BestEpochs(history)) =>
                        \E i \in DOMAIN trace : trace[i] = <<"save", Executed>>

C9_Witness ==
    /\ Ran("train") /\ pc = "done"
    /\ hooks = HookNames
    /\ call.validation
    /\ Executed = 2
    /\ call.epochs = 3
    /\ Count(trace, "break") = 1
    /\ \E i \in DOMAIN trace : trace[i] = <<"save", 2>>

\* C10: after k executed epochs the history of train holds k results for
\* loss and for acc, k for val_loss and for val_acc with validation data
\* and none without, and the epochs 1, 2, ..., k in order.
C10_HistoryPerEpoch ==
    (Ran("train") /\ pc \in {"finish", "done"}) =>
        LET k == Count(trace, "do_forward")
        IN  /\ \A n \in TrainingMetrics : Len(history.history[n]) = k
            /\ \A n \in MetricNames \ TrainingMetrics :
                  Len(history.history[n]) = IF call.validation THEN k ELSE 0
            /\ history.epoch = [i \in 1..k |-> i]
            /\ \A n \in MetricNames : \A i \in DOMAIN history.history[n] :
                  history.history[n][i] \in MetricValues

C10_Witness ==
    /\ Ran("train") /\ pc = "done"
    /\ call.validation
    /\ call.epochs = 3
    /\ history.epoch = <<1, 2>>
    /\ Len(history.history["val_acc"]) = 2

\* C11: a call of train_v2 with a keyword it does not recognise raises
\* TypeError before on_train_begin, any hook and any pass, and leaves
\* index_train, index_val and the supplied callback list as they were; the
\* keyword es_verbose alone is never the cause of a TypeError, whatever
\* early_stopping is.
C11_UnknownKeywordsRejected ==
    [][(pc = "idle" /\ last_op' = "train_v2" /\ result' = "TypeError") =>
          /\ pc' = "done"
          /\ call'.kwargs \ {"es_verbose"} # {}
          /\ UNCHANGED <<index_train, index_val, supplied>>
          /\ \A i \in DOMAIN trace' :
                trace'[i][1] \in {"train_sequence", "index_train",
                                  "test_sequence", "index_val"}
          /\ io' = <<>>
          /\ UNCHANGED <<model, files>>]_vars

\* C12: in train and train_v2 with save_best=True every load and every
\* remove of the checkpoint path comes after a save to that path in the
\* same call, for every number of epochs, 0 included.
C12_LoadAfterSave ==
    (last_op \in {"train", "train_v2"} /\ Ran(last_op)) =>
        \A i \in DOMAIN io :
            io[i][1] \in {"load", "os.remove"} =>
                \E j \in 1..(i - 1) : io[j] = <<"save", io[i][2]>>

----------------------------------------------------------------------------
(* TorchKeras *)

\* gg.file_ext() under the PyTorch backend
file_ext == <<".", "p", "t", "h">>

StateDicts == 0..MaxStateDict

\* lines 153-156
save_weights_filepath(filepath) ==
    IF ~endswith(filepath, file_ext) THEN filepath \o file_ext ELSE filepath

\* the extension appended without looking at the end of the name
load_weights_filepath_always(filepath) == filepath \o file_ext

\* lines 166-169
load_weights_filepath(filepath) ==
    IF ~endswith(filepath, file_ext) THEN filepath \o file_ext ELSE filepath

\* lines 175-178
save_filepath(filepath) ==
    IF ~endswith(filepath, file_ext) THEN filepath \o file_ext ELSE filepath

\* lines 189-192
load_filepath(filepath) ==
    IF ~endswith(filepath, file_ext) THEN filepath \o file_ext ELSE filepath

\* torch.save(self, ...) pickles the module, not a state dict
pickled_module(sd) == -(sd + 1)

is_state_dict(v) == v >= 0

\* the names a caller derives from tk_path
FilepathArgs == {tk_path, tk_path \o file_ext, tk_path \o file_ext \o file_ext}

smvars == <<objvars, framevars, last_op>>

\* lines 55-78: an optimizer step changes the parameters
train_step_on_batch ==
    /\ \E sd \in StateDicts \ {state_dict} : state_dict' = sd
    /\ tk_loaded' = None
    /\ UNCHANGED <<smvars, tk_path, tk_saved>>

\* lines 148-163
save_weights ==
    \E filepath \in FilepathArgs, overwrite \in BOOLEAN, proceed \in BOOLEAN :
        LET file == save_weights_filepath(filepath)
        IN  /\ tk_loaded' = None
            /\ IF ~overwrite /\ file \in DOMAIN files /\ ~proceed
               THEN /\ tk_saved' = None
                    /\ files' = files
               ELSE /\ files' = save(files, file, state_dict)
                    /\ tk_saved' = Some([filepath |-> filepath, sd |-> state_dict])
            /\ UNCHANGED <<built, model, index_train, index_val, index_test, hooks,
                           supplied, framevars, last_op, state_dict, tk_path>>

\* lines 165-172: a missing file and a file that holds no state dict raise
load_weights ==
    \E filepath \in FilepathArgs :
        LET file == load_weights_filepath(filepath)
        IN  /\ IF file \in DOMAIN files /\ is_state_dict(files[file])
               THEN /\ state_dict' = files[file]
                    /\ tk_loaded' = Some([op |-> "load_weights", filepath |-> filepath,
                                          sd |-> files[file]])
               ELSE /\ state_dict' = state_dict
                    /\ tk_loaded' = None
            /\ UNCHANGED <<smvars, tk_path, tk_saved>>

\* lines 174-185: the whole module is written
tk_save ==
    \E filepath \in FilepathArgs, overwrite \in BOOLEAN, proceed \in BOOLEAN :
        LET file == save_filepath(filepath)
        IN  /\ tk_loaded' = None
            /\ tk_saved' = None
            /\ files' = IF ~overwrite /\ file \in DOMAIN files /\ ~proceed
                        THEN files
                        ELSE save(files, file, pickled_module(state_dict))
            /\ UNCHANGED <<built, model, index_train, index_val, index_test, hooks,
                           supplied, framevars, last_op, state_dict, tk_path>>

\* lines 187-194: a module is read and returned, self is left alone
tk_load ==
    \E filepath \in FilepathArgs :
        LET file == load_filepath(filepath)
        IN  /\ tk_loaded' = IF file \in DOMAIN files
                            THEN Some([op |-> "load", filepath |-> filepath,
                                       sd |-> files[file]])
                            ELSE None
            /\ UNCHANGED <<smvars, state_dict, tk_path, tk_saved>>

InitTK ==
    /\ built = "False"
    /\ model = NoModel
    /\ index_train = "None"
    /\ index_val = "None"
    /\ index_test = "None"
    /\ hooks = {}
    /\ files = NoFiles
    /\ supplied = <<>>
    /\ last_op = "none"
    /\ Frame0
    /\ state_dict = 0
    /\ tk_path \in StrsOver(TorchAlphabet, MaxPathLen)
    /\ tk_saved = None
    /\ tk_loaded = None

NextTK ==
    \/ train_step_on_batch
    \/ save_weights
    \/ load_weights
    \/ tk_save
    \/ tk_load

SpecTK == InitTK /\ [][NextTK]_vars

----------------------------------------------------------------------------
(* Properties of TorchKeras *)

\* the four methods agree on the file of a name, and it has the extension
OneFile(filepath) ==
    /\ endswith(save_weights_filepath(filepath), file_ext)
    /\ load_weights_filepath(filepath) = save_weights_filepath(filepath)
    /\ save_filepath(filepath) = save_weights_filepath(filepath)
    /\ load_filepath(filepath) = save_weights_filepath(filepath)

\* p and q are one name, or one is the other with the extension appended
SameName(p, q) == p = q \/ q = p \o file_ext \/ p = q \o file_ext

\* the same, the longer one counted only when the shorter one has no extension
SameFile(p, q) ==
    \/ p = q
    \/ q = p \o file_ext /\ ~endswith(p, file_ext)
    \/ p = q \o file_ext /\ ~endswith(q, file_ext)

JustLoaded(Same(_, _)) ==
    /\ tk_saved # None
    /\ tk_loaded # None
    /\ tk_loaded[1].op = "load_weights"
    /\ Same(tk_saved[1].filepath, tk_loaded[1].filepath)

\* C6 as stated: load_weights after save_weights restores the saved state
\* dict, given the same name or the name with the extension appended,
\* whether or not the name already ends with the extension.
C6_AnyNameWithExtension ==
    JustLoaded(SameName) =>
        /\ tk_loaded[1].sd = tk_saved[1].sd
        /\ state_dict = tk_saved[1].sd

\* C6: load_weights(p) after save_weights(p) restores the saved state dict;
\* save_weights, load_weights, save and load give a name the same file,
\* the name with the extension appended exactly when it does not end with
\* it; p and p + ext are one file when p does not end with the extension.
C6_RoundTrip ==
    /\ \A filepath \in FilepathArgs : OneFile(filepath)
    /\ JustLoaded(SameFile) =>
          /\ tk_loaded[1].sd = tk_saved[1].sd
          /\ state_dict = tk_saved[1].sd

C6_Witness ==
    /\ JustLoaded(SameFile)
    /\ tk_path # <<>>
    /\ tk_saved[1].filepath = tk_path
    /\ tk_loaded[1].filepath = tk_path \o file_ext
    /\ state_dict = 1
    /\ Cardinality(DOMAIN files) = 2

====
